---- MODULE Spec2Model ----
(***************************************************************************)
(* A model of the CSS custom-property registry CssVars                     *)
(* (src/src/CssVars/CssVars.ts), of the keyframes of Animations            *)
(* (src/unnamed/part_001) and of CssUtils.responsive                       *)
(* (src/src/CSS/CssUtils/CssUtils.ts).                                     *)
(*                                                                         *)
(* JavaScript strings are sequences of one-character strings, so that the  *)
(* regular-expression substitution of CssVars.set works on the characters  *)
(* it really sees.  Variable names are such sequences too (the name is     *)
(* captured out of a value by the regular expression); theme names are     *)
(* only ever used as keys and are plain strings.                           *)
(***************************************************************************)
EXTENDS Integers, Sequences, FiniteSets, TLC

----------------------------------------------------------------------------
(* Bounds of the model *)

\* the number of calls of the registry's operations in one run
MaxCalls == 3

----------------------------------------------------------------------------
(* Strings *)

\* the literal text  CssVars.get(  that opens an embedded reference
GetPrefix == <<"C","s","s","V","a","r","s",".","g","e","t","(">>

\* a pattern that knows the single quote only
QuotesSingle == {"'"}

\* ['"] in the regular expression
Quotes == {"'", "\""}

\* \s in the regular expression (the white space the model's alphabet has)
WhiteSpace == {" ", "\t", "\n", "\r"}

\* the characters  .  does not match
LineTerminators == {"\n", "\r"}

\* `var(--${name})`
VarRef(name) == <<"v","a","r","(","-","-">> \o name \o <<")">>

Digits == <<"0","1","2","3","4","5","6","7","8","9">>

RECURSIVE NumberToString(_)
\* `${minWidth}` for a non-negative integer
NumberToString(n) ==
  IF n < 10 THEN <<Digits[n + 1]>>
  ELSE NumberToString(n \div 10) \o <<Digits[(n % 10) + 1]>>

\* s has the text t at position i
HasAt(s, i, t) ==
  /\ i >= 1
  /\ i + Len(t) - 1 <= Len(s)
  /\ SubSeq(s, i, i + Len(t) - 1) = t

\* every character of s[from..to] is matched by  .
AllDot(s, from, to) == \A k \in from..to : s[k] \notin LineTerminators

----------------------------------------------------------------------------
(* The regular expression                                                  *)
(*   /CssVars\.get\(['"](.+?)['"](?:,\s*['"](.+?)['"])?\)/g                *)
(* A match is a record: where the first capture lies (refFrom..refTo),     *)
(* whether the optional group took part, where the second capture lies     *)
(* (fbFrom..fbTo), and the position of the final ")" (end).                *)

NoMatch == [found |-> FALSE, refFrom |-> 0, refTo |-> 0, hasFb |-> FALSE,
            fbFrom |-> 0, fbTo |-> 0, end |-> 0]

\* the position after the greedy run \s* that starts at position p
SkipSpace(s, p) ==
  CHOOSE q \in p..(Len(s) + 1) :
    /\ \A k \in p..(q - 1) : s[k] \in WhiteSpace
    /\ (q <= Len(s) => s[q] \notin WhiteSpace)

\* the closing quotes e of a second capture that opens after the quote at q:
\* s[q] is a quote, the capture s[q+1..e-1] is not empty, s[e] is a quote and
\* s[e+1] is ")"
FallbackEnds(s, q) ==
  IF q > Len(s) \/ s[q] \notin Quotes THEN {}
  ELSE { e \in (q + 2)..(Len(s) - 1) :
           /\ s[e] \in Quotes
           /\ s[e + 1] = ")"
           /\ AllDot(s, q + 1, e - 1) }

\* the optional group (?:,\s*['"](.+?)['"])? tried right after the quote at j:
\* the places where its second capture may end (lazy: the least one is taken)
GroupEnds(s, j) ==
  IF j + 1 <= Len(s) /\ s[j + 1] = ","
  THEN FallbackEnds(s, SkipSpace(s, j + 2))
  ELSE {}

\* the quote at j can close the first capture and the rest of the pattern
\* matches after it, with or without the optional group
ClosesRef(s, j) ==
  \/ GroupEnds(s, j) # {}
  \/ (j + 1 <= Len(s) /\ s[j + 1] = ")")

Min(S) == CHOOSE x \in S : \A y \in S : x <= y

\* the match of the pattern that starts exactly at position i, if any
MatchAt(s, i) ==
  IF ~ (HasAt(s, i, GetPrefix) /\ i + 12 <= Len(s) /\ s[i + 12] \in Quotes)
  THEN NoMatch
  ELSE
    LET o == i + 12
        cands == { j \in (o + 2)..Len(s) :
                     /\ s[j] \in Quotes
                     /\ AllDot(s, o + 1, j - 1)
                     /\ ClosesRef(s, j) }
    IN IF cands = {} THEN NoMatch
       ELSE
         LET j == Min(cands)
             g == GroupEnds(s, j)
         IN IF g # {}
            THEN LET e == Min(g)
                     q == SkipSpace(s, j + 2)
                 IN [found |-> TRUE, refFrom |-> o + 1, refTo |-> j - 1,
                     hasFb |-> TRUE, fbFrom |-> q + 1, fbTo |-> e - 1,
                     end |-> e + 1]
            ELSE [found |-> TRUE, refFrom |-> o + 1, refTo |-> j - 1,
                  hasFb |-> FALSE, fbFrom |-> 0, fbTo |-> 0, end |-> j + 1]

\* a resolution that prefers the fallback to the stored value
ResolveFallbackFirst(vs, ref, hasFb, fallback) ==
  IF hasFb THEN fallback
  ELSE IF ref \in DOMAIN vs THEN vs[ref]
  ELSE VarRef(ref)

\* a resolution written with || : an empty stored value counts as absent
ResolveTruthy(vs, ref, hasFb, fallback) ==
  IF ref \in DOMAIN vs /\ vs[ref] # <<>> THEN vs[ref]
  ELSE IF hasFb THEN fallback
  ELSE VarRef(ref)

\* CssVars.vars[`--${ref}`] ?? fallback ?? `var(--${ref})`
Resolve(vs, ref, hasFb, fallback) ==
  IF ref \in DOMAIN vs THEN vs[ref]
  ELSE IF hasFb THEN fallback
  ELSE VarRef(ref)

RECURSIVE ReplaceFrom(_, _, _)
\* value.replace(<pattern>, callback) from position i on: matches are found
\* left to right, do not overlap, and the substituted text is not scanned
ReplaceFrom(vs, s, i) ==
  IF i > Len(s) THEN <<>>
  ELSE LET m == MatchAt(s, i)
       IN IF m.found
          THEN Resolve(vs, SubSeq(s, m.refFrom, m.refTo), m.hasFb,
                       SubSeq(s, m.fbFrom, m.fbTo))
                 \o ReplaceFrom(vs, s, m.end + 1)
          ELSE <<s[i]>> \o ReplaceFrom(vs, s, i + 1)

\* a replacement that scans the text it has substituted once more
ReplaceRefsRescanned(vs, s) == ReplaceFrom(vs, ReplaceFrom(vs, s, 1), 1)

ReplaceRefs(vs, s) == ReplaceFrom(vs, s, 1)

----------------------------------------------------------------------------
(* Values of the program *)

\* the empty record {} that CssVars.vars starts as
EmptyMap == [n \in {} |-> <<>>]

\* obj[key] = val on a string-valued record
Put(map, key, val) ==
  [n \in DOMAIN map \cup {key} |-> IF n = key THEN val ELSE map[n]]

\* ResponsiveVariableValue = string | { [minWidth: number]: string }
\* A breakpoint map is the sequence of its entries in the order they were
\* written; the widths of one map are distinct.
StringValue(s) == [kind |-> "string", str |-> s, bps |-> <<>>]
BreakpointMap(entries) == [kind |-> "object", str |-> <<>>, bps |-> entries]
At(w, s) == [w |-> w, v |-> s]
Entry(name, value) == [name |-> name, value |-> value]

\* the number a string of decimal digits denotes
DigitValue(c) == (CHOOSE d \in 1..10 : Digits[d] = c) - 1

RECURSIVE ToIndex(_)
ToIndex(name) ==
  IF name = <<>> THEN 0
  ELSE 10 * ToIndex(SubSeq(name, 1, Len(name) - 1))
         + DigitValue(name[Len(name)])

\* the property key is an array index: the canonical decimal text of an
\* integer from 0 to 2^32 - 2 (keys of ten digits or more do not occur here)
IsArrayIndex(name) ==
  /\ name # <<>>
  /\ Len(name) <= 9
  /\ \A k \in 1..Len(name) : \E d \in 1..10 : Digits[d] = name[k]
  /\ (Len(name) = 1 \/ name[1] # "0")

RECURSIVE InsertEntry(_, _)
\* the entry e put into a sequence of entries kept in ascending index order
InsertEntry(e, sorted) ==
  IF sorted = <<>> THEN <<e>>
  ELSE IF ToIndex(e.name) < ToIndex(Head(sorted).name) THEN <<e>> \o sorted
  ELSE <<Head(sorted)>> \o InsertEntry(e, Tail(sorted))

\* Object.entries(obj) of an object whose properties were written in the
\* order of the sequence written (names distinct): the array-index keys in
\* ascending numeric order, then the other keys in the order they were written
ObjectEntries(written) ==
  LET IsIndex(e) == IsArrayIndex(e.name)
      IsOther(e) == ~ IsArrayIndex(e.name)
      idx == SelectSeq(written, IsIndex)
      S[i \in 0..Len(idx)] ==
        IF i = 0 THEN <<>> ELSE InsertEntry(idx[i], S[i - 1])
  IN S[Len(idx)] \o SelectSeq(written, IsOther)

\* currentTheme: string | null
Null == "<null>"

\* the property names every object literal inherits from Object.prototype:
\* CssVars.themes is created as {} and is read with themes[themeName]
InheritedProps == {"constructor", "toString", "valueOf", "hasOwnProperty"}

\* the state a handler works on: the variable map, the inline custom
\* properties of the document root, the style element with the id
\* styling-utils-responsive-vars (and whether it exists), the number of
\* elements created with that id, and whether an exception is propagating
Registry(vs, rs, se, nodes, made) ==
  [vars |-> vs, root |-> rs, hasStyleEl |-> se, nodes |-> nodes,
   created |-> made, threw |-> FALSE]

\* the closing bracket of an opening one
Closer(c) == IF c = "(" THEN ")" ELSE IF c = "[" THEN "]" ELSE "}"

RECURSIVE DeclarationValueFrom(_, _, _, _)
\* the text val from position i on, inside the open brackets whose closers
\* are open (innermost first) and inside a string opened by the quote q (""
\* outside a string), has nothing that ends a declaration value
DeclarationValueFrom(val, i, open, q) ==
  IF i > Len(val) THEN TRUE
  ELSE LET c == val[i]
       IN IF q # ""
          THEN c # "\n"
               /\ DeclarationValueFrom(val, i + 1, open,
                                       IF c = q THEN "" ELSE q)
          ELSE IF c \in Quotes
          THEN DeclarationValueFrom(val, i + 1, open, c)
          ELSE IF c \in {"(", "[", "{"}
          THEN DeclarationValueFrom(val, i + 1, <<Closer(c)>> \o open, "")
          ELSE IF c \in {")", "]", "}"}
          THEN open # <<>> /\ Head(open) = c
               /\ DeclarationValueFrom(val, i + 1, Tail(open), "")
          ELSE IF c \in {";", "!"}
          THEN open # <<>> /\ DeclarationValueFrom(val, i + 1, open, "")
          ELSE DeclarationValueFrom(val, i + 1, open, "")

\* the text is a value that a style declaration of a custom property accepts:
\* any text without a semicolon or exclamation mark outside brackets, without
\* a closing bracket that closes nothing, and without a line end in a string
IsDeclarationValue(val) == DeclarationValueFrom(val, 1, <<>>, "")

\* document.documentElement.style.setProperty(varName, value): the empty
\* string removes the property, and a text that is not a declaration value
\* is not parsed and leaves the property as it was
SetProperty(rs, name, val) ==
  IF val = <<>>
  THEN [n \in DOMAIN rs \ {name} |-> rs[n]]
  ELSE IF ~ IsDeclarationValue(val) THEN rs
  ELSE Put(rs, name, val)

\* style.getPropertyValue(varName): the empty string when it is not set
GetPropertyValue(rs, name) == IF name \in DOMAIN rs THEN rs[name] ELSE <<>>

----------------------------------------------------------------------------
(* The handlers, as functions of the registry state *)

\* a set that ignores a value that is empty after substitution
DoSetSkipEmpty(st, doc, name, value) ==
  LET processedValue == ReplaceRefs(st.vars, value)
  IN IF processedValue = <<>> THEN st
     ELSE [st EXCEPT !.vars = Put(@, name, processedValue),
                     !.root = IF doc THEN SetProperty(@, name, processedValue)
                              ELSE @]

\* a set that also rewrites the variables that hold  var(--name)
DoSetPropagate(st, doc, name, value) ==
  LET processedValue == ReplaceRefs(st.vars, value)
      vs == Put(st.vars, name, processedValue)
  IN [st EXCEPT !.vars = [n \in DOMAIN vs |->
                            IF vs[n] = VarRef(name) THEN processedValue
                            ELSE vs[n]],
                !.root = IF doc THEN SetProperty(@, name, processedValue)
                         ELSE @]

\* a set that discards the media rules generated so far
DoSetDropRules(st, doc, name, value) ==
  LET processedValue == ReplaceRefs(st.vars, value)
  IN [st EXCEPT !.vars = Put(@, name, processedValue),
                !.root = IF doc THEN SetProperty(@, name, processedValue)
                         ELSE @,
                !.nodes = <<>>]

\* a set that mirrors the raw value, its references unresolved
DoSetMirrorRaw(st, doc, name, value) ==
  LET processedValue == ReplaceRefs(st.vars, value)
  IN [st EXCEPT !.vars = Put(@, name, processedValue),
                !.root = IF doc THEN SetProperty(@, name, value) ELSE @]

\* a set that unregisters the variable when its value is the empty string
DoSetDeleteEmpty(st, doc, name, value) ==
  LET processedValue == ReplaceRefs(st.vars, value)
  IN [st EXCEPT !.vars = IF processedValue = <<>>
                         THEN [m \in DOMAIN @ \ {name} |-> @[m]]
                         ELSE Put(@, name, processedValue),
                !.root = IF doc THEN SetProperty(@, name, processedValue)
                         ELSE @]

\* CssVars.set body (lines 16-30); doc is  typeof document !== "undefined"
DoSet(st, doc, name, value) ==
  LET processedValue == ReplaceRefs(st.vars, value)
  IN [st EXCEPT !.vars = Put(@, name, processedValue),
                !.root = IF doc THEN SetProperty(@, name, processedValue)
                         ELSE @]

\* a set that returns the property name instead of a reference to it
SetResultBare(name) == <<"-", "-">> \o name

\* the value CssVars.set returns
SetResult(name) == VarRef(name)

\* a batch that resolves every value against the variables before the batch
DoSetBatchSnapshot(st, doc, entries) ==
  LET F[i \in 0..Len(entries)] ==
        IF i = 0 THEN st
        ELSE LET processedValue == ReplaceRefs(st.vars, entries[i].value)
             IN [F[i - 1] EXCEPT
                   !.vars = Put(@, entries[i].name, processedValue),
                   !.root = IF doc
                            THEN SetProperty(@, entries[i].name, processedValue)
                            ELSE @]
  IN F[Len(entries)]

RECURSIVE DoSetBatch(_, _, _)
\* the loop of CssVars.setBatch: set for each of the entries that
\* Object.entries(variables) gave, in their order
DoSetBatch(st, doc, entries) ==
  IF entries = <<>> THEN st
  ELSE DoSetBatch(DoSet(st, doc, Head(entries).name, Head(entries).value),
                  doc, Tail(entries))

RECURSIVE Insert(_, _)
\* x put into the ascending sequence sorted
Insert(x, sorted) ==
  IF sorted = <<>> THEN <<x>>
  ELSE IF x - Head(sorted) <= 0 THEN <<x>> \o sorted
  ELSE <<Head(sorted)>> \o Insert(x, Tail(sorted))

\* the keys left in the order Object.keys gave them
SortKeysUnsorted(keys) == keys

RECURSIVE SortKeys(_)
\* .sort((a, b) => a - b)
SortKeys(keys) ==
  IF keys = <<>> THEN <<>> ELSE Insert(Head(keys), SortKeys(Tail(keys)))

\* Object.keys(values).map(Number).sort((a, b) => a - b)
MinWidthKeys(bps) == SortKeys([i \in 1..Len(bps) |-> bps[i].w])

\* values[minWidth]
ValueAt(bps, w) == (CHOOSE i \in 1..Len(bps) : bps[i].w = w)

\* `@media (min-width: ${minWidth}px) { :root { ${varName}: ${val}; } }`
MediaRule(minWidth, name, val) ==
  <<"@","m","e","d","i","a"," ","(","m","i","n","-","w","i","d","t","h",":"," ">>
    \o NumberToString(minWidth)
    \o <<"p","x",")"," ","{"," ",":","r","o","o","t"," ","{"," ","-","-">>
    \o name \o <<":"," ">> \o val \o <<";"," ","}"," ","}">>

RECURSIVE MediaCss(_, _, _, _)
\* minWidthKeys.map(...).join("\n")
MediaCss(vs, name, bps, keys) ==
  IF keys = <<>> THEN <<>>
  ELSE LET rule == MediaRule(Head(keys), name,
                     ReplaceRefs(vs, bps[ValueAt(bps, Head(keys))].v))
       IN IF Len(keys) = 1 THEN rule
          ELSE rule \o <<"\n">> \o MediaCss(vs, name, bps, Tail(keys))

\* a responsive application that reaches for the document without asking
\* whether there is one, and fails when there is none
DoResponsiveUnguarded(st, doc, name, bps) ==
  LET minWidthKeys == MinWidthKeys(bps)
  IN IF minWidthKeys = <<>> THEN [st EXCEPT !.threw = TRUE]
     ELSE
       LET baseValue == bps[ValueAt(bps, minWidthKeys[1])].v
           st1 == DoSet(st, doc, name, baseValue)
       IN IF ~ doc THEN [st1 EXCEPT !.threw = TRUE]
          ELSE [st1 EXCEPT
                  !.created = IF st1.hasStyleEl THEN @ ELSE @ + 1,
                  !.hasStyleEl = TRUE,
                  !.nodes = Append(@, MediaCss(st1.vars, name, bps,
                                               minWidthKeys))]

\* a responsive application that replaces the content of the style element
DoResponsiveReplace(st, doc, name, bps) ==
  LET minWidthKeys == MinWidthKeys(bps)
  IN IF minWidthKeys = <<>> THEN [st EXCEPT !.threw = TRUE]
     ELSE
       LET baseValue == bps[ValueAt(bps, minWidthKeys[1])].v
           st1 == DoSet(st, doc, name, baseValue)
       IN IF ~ doc THEN st1
          ELSE [st1 EXCEPT
                  !.created = IF st1.hasStyleEl THEN @ ELSE @ + 1,
                  !.hasStyleEl = TRUE,
                  !.nodes = <<MediaCss(st1.vars, name, bps, minWidthKeys)>>]

\* a responsive application that creates a style element each time
DoResponsiveRecreate(st, doc, name, bps) ==
  LET minWidthKeys == MinWidthKeys(bps)
  IN IF minWidthKeys = <<>> THEN [st EXCEPT !.threw = TRUE]
     ELSE
       LET baseValue == bps[ValueAt(bps, minWidthKeys[1])].v
           st1 == DoSet(st, doc, name, baseValue)
       IN IF ~ doc THEN st1
          ELSE [st1 EXCEPT
                  !.created = @ + 1,
                  !.hasStyleEl = TRUE,
                  !.nodes = Append(@, MediaCss(st1.vars, name, bps,
                                               minWidthKeys))]

\* CssVars.applyResponsiveVariable.  With an empty breakpoint map baseValue is
\* undefined and set throws a TypeError at value.replace, before it stores
\* anything.
DoResponsive(st, doc, name, bps) ==
  LET minWidthKeys == MinWidthKeys(bps)
  IN IF minWidthKeys = <<>> THEN [st EXCEPT !.threw = TRUE]
     ELSE
       LET baseValue == bps[ValueAt(bps, minWidthKeys[1])].v
           st1 == DoSet(st, doc, name, baseValue)
       IN IF ~ doc THEN st1
          ELSE [st1 EXCEPT
                  !.created = IF st1.hasStyleEl THEN @ ELSE @ + 1,
                  !.hasStyleEl = TRUE,
                  !.nodes = Append(@, MediaCss(st1.vars, name, bps,
                                               minWidthKeys))]

RECURSIVE DoResponsiveAll(_, _, _)
\* the loop over Object.entries(responsiveVars); an exception ends it
DoResponsiveAll(st, doc, entries) ==
  IF entries = <<>> \/ st.threw THEN st
  ELSE DoResponsiveAll(
         DoResponsive(st, doc, Head(entries).name, Head(entries).value.bps),
         doc, Tail(entries))

\* the entries of the theme whose value is (is not) a string, in order
StaticVars(theme) ==
  LET F[i \in 0..Len(theme)] ==
        IF i = 0 THEN <<>>
        ELSE IF theme[i].value.kind = "string"
             THEN Append(F[i - 1], Entry(theme[i].name, theme[i].value.str))
             ELSE F[i - 1]
  IN F[Len(theme)]

ResponsiveVars(theme) ==
  LET F[i \in 0..Len(theme)] ==
        IF i = 0 THEN <<>>
        ELSE IF theme[i].value.kind = "string" THEN F[i - 1]
             ELSE Append(F[i - 1], theme[i])
  IN F[Len(theme)]

\* a definition that replaces the whole theme table
DefineOnly(table, themeName, variables) ==
  [t \in {themeName} |-> variables]

\* a definition that keeps the entries of the definition it replaces
DefineMerged(table, themeName, variables) ==
  IF themeName \notin DOMAIN table THEN Put(table, themeName, variables)
  ELSE LET old == table[themeName]
           names == { variables[i].name : i \in 1..Len(variables) }
           Kept(e) == e.name \notin names
       IN Put(table, themeName, SelectSeq(old, Kept) \o variables)

\* CssVars.themes[themeName] = variables
Define(table, themeName, variables) == Put(table, themeName, variables)

\* CssVars.themes[themeName]: an own property, else a property inherited from
\* Object.prototype (a function: truthy, without enumerable entries), else
\* undefined
ThemeLookup(table, themeName) ==
  IF themeName \in DOMAIN table
  THEN [defined |-> TRUE, entries |-> table[themeName]]
  ELSE IF themeName \in InheritedProps
  THEN [defined |-> TRUE, entries |-> <<>>]
  ELSE [defined |-> FALSE, entries |-> <<>>]

\* an application that starts from an empty variable map
DoApplyThemeCleared(st, doc, theme) ==
  LET entries == ObjectEntries(theme)
  IN DoResponsiveAll(DoSetBatch([st EXCEPT !.vars = EmptyMap], doc,
                                StaticVars(entries)),
                     doc, ResponsiveVars(entries))

\* an application that applies the entries one after the other as they are
\* enumerated, a static or a responsive one as it comes
DoApplyThemeAsWritten(st, doc, theme) ==
  LET entries == ObjectEntries(theme)
      F[i \in 0..Len(entries)] ==
        IF i = 0 THEN st
        ELSE IF F[i - 1].threw THEN F[i - 1]
        ELSE IF entries[i].value.kind = "string"
        THEN DoSet(F[i - 1], doc, entries[i].name, entries[i].value.str)
        ELSE DoResponsive(F[i - 1], doc, entries[i].name,
                          entries[i].value.bps)
  IN F[Len(entries)]

\* CssVars.applyTheme after the lookup succeeded (lines 63-81); theme is the
\* definition as it was written, and the loop of lines 67-73 copies its
\* entries in the order of Object.entries
DoApplyTheme(st, doc, theme) ==
  LET entries == ObjectEntries(theme)
  IN DoResponsiveAll(DoSetBatch(st, doc, StaticVars(entries)), doc,
                     ResponsiveVars(entries))

\* a get that prefers the fallback to the stored value
GetFallbackFirst(vs, name, hasFb, fallback) ==
  IF hasFb THEN fallback
  ELSE IF name \in DOMAIN vs THEN vs[name]
  ELSE VarRef(name)

\* CssVars.get
Get(vs, name, hasFb, fallback) ==
  IF name \in DOMAIN vs THEN vs[name]
  ELSE IF hasFb THEN fallback
  ELSE VarRef(name)

----------------------------------------------------------------------------
(* CssUtils (src/src/CSS/CssUtils/CssUtils.ts): the functions that          *)
(* Animations.keyframes and CssUtils.responsive use.  An object is the      *)
(* sequence of its entries [name, value] in the order its properties were   *)
(* created; ObjectEntries gives the order in which they are enumerated.     *)

UpperCase == <<"A","B","C","D","E","F","G","H","I","J","K","L","M","N","O","P","Q","R","S","T","U","V","W","X","Y","Z">>

LowerCase == <<"a","b","c","d","e","f","g","h","i","j","k","l","m","n","o","p","q","r","s","t","u","v","w","x","y","z">>

IsUpperCase(c) == \E k \in 1..26 : UpperCase[k] = c

\* m.toLowerCase() for one character
ToLowerCase(c) ==
  IF IsUpperCase(c) THEN LowerCase[CHOOSE k \in 1..26 : UpperCase[k] = c]
  ELSE c

\* prop.charAt(0).toUpperCase() for one character
ToUpperCase(c) ==
  IF \E k \in 1..26 : LowerCase[k] = c
  THEN UpperCase[CHOOSE k \in 1..26 : LowerCase[k] = c]
  ELSE c

RECURSIVE CamelToKebab(_)
\* str.replace(/[A-Z]/g, (m) => `-${m.toLowerCase()}`)
CamelToKebab(str) ==
  IF str = <<>> THEN <<>>
  ELSE (IF IsUpperCase(Head(str)) THEN <<"-", ToLowerCase(Head(str))>>
        ELSE <<Head(str)>>)
         \o CamelToKebab(Tail(str))

\* a style value is a number or a string
Num(n) == [kind |-> "number", num |-> n, str |-> <<>>]
Str(s) == [kind |-> "string", num |-> 0, str |-> s]

\* `${v}` for a style value
TemplateText(v) == IF v.kind = "number" THEN NumberToString(v.num) ELSE v.str

\* key in obj, for an object without inherited properties of that name
HasKey(obj, key) == \E i \in 1..Len(obj) : obj[i].name = key

\* obj[key] of a property that exists
GetKey(obj, key) == obj[CHOOSE i \in 1..Len(obj) : obj[i].name = key].value

\* obj[key] = val: an existing property keeps its place, a new one is created
\* after the others
Assign(obj, key, val) ==
  IF HasKey(obj, key)
  THEN [i \in 1..Len(obj) |->
          IF obj[i].name = key THEN Entry(key, val) ELSE obj[i]]
  ELSE Append(obj, Entry(key, val))

\* the list  properties  of autoPrefix
PrefixedProperties ==
  << <<"a","p","p","e","a","r","a","n","c","e">>,
     <<"u","s","e","r","S","e","l","e","c","t">>,
     <<"t","r","a","n","s","f","o","r","m">>,
     <<"t","r","a","n","s","f","o","r","m","O","r","i","g","i","n">>,
     <<"t","r","a","n","s","i","t","i","o","n">>,
     <<"t","r","a","n","s","i","t","i","o","n","D","e","l","a","y">>,
     <<"t","r","a","n","s","i","t","i","o","n","D","u","r","a","t","i","o","n">>,
     <<"t","r","a","n","s","i","t","i","o","n","P","r","o","p","e","r","t","y">>,
     <<"t","r","a","n","s","i","t","i","o","n","T","i","m","i","n","g","F","u","n","c","t","i","o","n">>,
     <<"a","n","i","m","a","t","i","o","n">>,
     <<"a","n","i","m","a","t","i","o","n","N","a","m","e">>,
     <<"a","n","i","m","a","t","i","o","n","D","u","r","a","t","i","o","n">>,
     <<"a","n","i","m","a","t","i","o","n","T","i","m","i","n","g","F","u","n","c","t","i","o","n">>,
     <<"a","n","i","m","a","t","i","o","n","D","e","l","a","y">>,
     <<"a","n","i","m","a","t","i","o","n","I","t","e","r","a","t","i","o","n","C","o","u","n","t">>,
     <<"a","n","i","m","a","t","i","o","n","D","i","r","e","c","t","i","o","n">>,
     <<"b","a","c","k","f","a","c","e","V","i","s","i","b","i","l","i","t","y">>,
     <<"b","o","x","S","h","a","d","o","w">>,
     <<"f","i","l","t","e","r">>,
     <<"f","l","e","x">>,
     <<"f","l","e","x","D","i","r","e","c","t","i","o","n">>,
     <<"j","u","s","t","i","f","y","C","o","n","t","e","n","t">>,
     <<"a","l","i","g","n","I","t","e","m","s">>,
     <<"a","l","i","g","n","S","e","l","f">>,
     <<"o","r","d","e","r">>,
     <<"p","e","r","s","p","e","c","t","i","v","e">>,
     <<"p","e","r","s","p","e","c","t","i","v","e","O","r","i","g","i","n">>,
     <<"t","r","a","n","s","f","o","r","m","S","t","y","l","e">>,
     <<"c","l","i","p","P","a","t","h">>,
     <<"m","a","s","k">>,
     <<"m","a","s","k","I","m","a","g","e">>,
     <<"m","a","s","k","S","i","z","e">>,
     <<"m","a","s","k","P","o","s","i","t","i","o","n">>,
     <<"m","a","s","k","R","e","p","e","a","t">>,
     <<"t","e","x","t","D","e","c","o","r","a","t","i","o","n","S","t","y","l","e">>,
     <<"t","e","x","t","D","e","c","o","r","a","t","i","o","n","C","o","l","o","r">>,
     <<"t","e","x","t","D","e","c","o","r","a","t","i","o","n","L","i","n","e">>,
     <<"w","r","i","t","i","n","g","M","o","d","e">>,
     <<"s","c","r","o","l","l","S","n","a","p","T","y","p","e">>,
     <<"s","c","r","o","l","l","S","n","a","p","A","l","i","g","n">>,
     <<"s","c","r","o","l","l","S","n","a","p","S","t","o","p">>,
     <<"h","y","p","h","e","n","s">>,
     <<"t","a","b","S","i","z","e">>,
     <<"b","a","c","k","g","r","o","u","n","d","C","l","i","p">>,
     <<"b","o","x","D","e","c","o","r","a","t","i","o","n","B","r","e","a","k">> >>

\* the list  vendors  of autoPrefix
Vendors == << <<"W","e","b","k","i","t">>, <<"M","o","z">>, <<"m","s">> >>

\* `${vendor}${prop.charAt(0).toUpperCase()}${prop.slice(1)}`
VendorKey(vendor, prop) == vendor \o <<ToUpperCase(prop[1])>> \o Tail(prop)

\* CssUtils.autoPrefix: a copy of styles, and for every listed property that
\* styles has, in the order of the list, its value under the three vendor keys
AutoPrefix(styles) ==
  LET Present(prop) == HasKey(styles, prop)
      found == SelectSeq(PrefixedProperties, Present)
      v == Len(Vendors)
      n == Len(found) * v
      F[k \in 0..n] ==
        IF k = 0 THEN ObjectEntries(styles)
        ELSE LET prop == found[((k - 1) \div v) + 1]
                 vendor == Vendors[((k - 1) % v) + 1]
             IN Assign(F[k - 1], VendorKey(vendor, prop), GetKey(styles, prop))
  IN F[n]

RECURSIVE JoinDeclarations(_)
\* .map(([k, v]) => `${CssUtils.camelToKebab(k)}: ${v};`).join(" ")
JoinDeclarations(entries) ==
  IF entries = <<>> THEN <<>>
  ELSE CamelToKebab(Head(entries).name) \o <<":", " ">>
         \o TemplateText(Head(entries).value) \o <<";">>
         \o (IF Len(entries) > 1 THEN <<" ">> ELSE <<>>)
         \o JoinDeclarations(Tail(entries))

\* the styleString of keyframes and of responsive
StyleString(styles) == JoinDeclarations(ObjectEntries(AutoPrefix(styles)))

\* DEFAULT_BREAKPOINTS
DefaultBreakpoints ==
  (<<"x","s">> :> 0) @@ (<<"s","m">> :> 576) @@ (<<"m","d">> :> 768)
    @@ (<<"l","g">> :> 992) @@ (<<"x","l">> :> 1200)

\* the values mediaQuery is called with: a number, a string, or an object
\* whose properties min and max are numbers or strings
NumberQuery(n) == [kind |-> "number", num |-> n]
StringQuery(s) == [kind |-> "string", str |-> s]
ObjectQuery(obj) == [kind |-> "object", obj |-> obj]

\* `(min-width: ${px}px)`, `(max-width: ${px}px)`
MinWidth(px) ==
  <<"(","m","i","n","-","w","i","d","t","h",":"," ">> \o NumberToString(px) \o <<"p","x",")">>
MaxWidth(px) ==
  <<"(","m","a","x","-","w","i","d","t","h",":"," ">> \o NumberToString(px) \o <<"p","x",")">>

AtMedia == <<"@","m","e","d","i","a"," ">>

\* the constant min (or max) of mediaQuery: null when the property is absent
\* or an unknown alias, else a number
RangeBound(obj, key) ==
  IF ~ HasKey(obj, key) THEN [isNull |-> TRUE, num |-> 0]
  ELSE LET b == GetKey(obj, key)
       IN IF b.kind = "number" THEN [isNull |-> FALSE, num |-> b.num]
          ELSE IF b.str \in DOMAIN DefaultBreakpoints
          THEN [isNull |-> FALSE, num |-> DefaultBreakpoints[b.str]]
          ELSE [isNull |-> TRUE, num |-> 0]

\* CssUtils.mediaQuery
MediaQuery(query) ==
  IF query.kind = "number" THEN AtMedia \o MinWidth(query.num)
  ELSE IF query.kind = "string"
  THEN LET value == IF query.str \in DOMAIN DefaultBreakpoints
                    THEN DefaultBreakpoints[query.str]
                    ELSE 0
       IN AtMedia \o MinWidth(value)
  ELSE LET min == RangeBound(query.obj, <<"m","i","n">>)
           max == RangeBound(query.obj, <<"m","a","x">>)
       IN AtMedia
            \o (IF min.isNull THEN <<>> ELSE MinWidth(min.num))
            \o (IF min.isNull \/ max.isNull THEN <<>>
                ELSE <<" ","a","n","d"," ">>)
            \o (IF max.isNull THEN <<>> ELSE MaxWidth(max.num))

----------------------------------------------------------------------------
(* JSON.parse, for the texts responsive passes to it: an object whose       *)
(* members are strings without escapes or non-negative integers, written    *)
(* without white space.  Any other text is a SyntaxError.                   *)

JsonFail == [ok |-> FALSE, value |-> Num(0), next |-> 0]

IsDigit(c) == \E d \in 1..10 : Digits[d] = c

\* the JSON value that starts at position i of s, and the position after it
JsonValueAt(s, i) ==
  IF i > Len(s) THEN JsonFail
  ELSE IF s[i] = "\""
  THEN LET ends == { j \in (i + 1)..Len(s) : s[j] = "\"" }
       IN IF ends = {} THEN JsonFail
          ELSE [ok |-> TRUE, value |-> Str(SubSeq(s, i + 1, Min(ends) - 1)),
                next |-> Min(ends) + 1]
  ELSE IF IsDigit(s[i])
  THEN LET j == CHOOSE q \in (i + 1)..(Len(s) + 1) :
                  /\ \A k \in i..(q - 1) : IsDigit(s[k])
                  /\ (q <= Len(s) => ~ IsDigit(s[q]))
       IN IF j - i > 1 /\ s[i] = "0" THEN JsonFail
          ELSE [ok |-> TRUE, value |-> Num(ToIndex(SubSeq(s, i, j - 1))),
                next |-> j]
  ELSE JsonFail

RECURSIVE JsonMembers(_, _, _)
\* the members  "key":value  from position i on, up to the closing brace that
\* ends the text, added to obj
JsonMembers(s, i, obj) ==
  LET k == JsonValueAt(s, i)
  IN IF ~ k.ok \/ k.value.kind # "string" \/ k.next > Len(s)
     THEN [ok |-> FALSE, obj |-> <<>>]
     ELSE IF s[k.next] # ":" THEN [ok |-> FALSE, obj |-> <<>>]
     ELSE LET v == JsonValueAt(s, k.next + 1)
          IN IF ~ v.ok \/ v.next > Len(s) THEN [ok |-> FALSE, obj |-> <<>>]
             ELSE LET o == Assign(obj, k.value.str, v.value)
                  IN IF s[v.next] = "}"
                     THEN [ok |-> v.next = Len(s),
                           obj |-> IF v.next = Len(s) THEN o ELSE <<>>]
                     ELSE IF s[v.next] = ","
                     THEN JsonMembers(s, v.next + 1, o)
                     ELSE [ok |-> FALSE, obj |-> <<>>]

\* JSON.parse(bp) of a text that starts with "{"
JsonParse(s) ==
  IF s = <<"{", "}">> THEN [ok |-> TRUE, obj |-> <<>>]
  ELSE JsonMembers(s, 2, <<>>)

RECURSIVE ResponsiveLines(_)
\* the loop of CssUtils.responsive over the entries [bp, styles]; threw when
\* JSON.parse threw
ResponsiveLines(entries) ==
  IF entries = <<>> THEN [threw |-> FALSE, css |-> <<>>]
  ELSE
    LET bp == Head(entries).name
        isJson == Len(bp) >= 1 /\ bp[1] = "{"
        parsed == JsonParse(bp)
    IN IF isJson /\ ~ parsed.ok THEN [threw |-> TRUE, css |-> <<>>]
       ELSE
         LET key == IF isJson THEN ObjectQuery(parsed.obj)
                    ELSE StringQuery(bp)
             line == MediaQuery(key) \o <<" ", "{", " ">>
                       \o StyleString(Head(entries).value)
                       \o <<" ", "}", "\n">>
             rest == ResponsiveLines(Tail(entries))
         IN IF rest.threw THEN rest
            ELSE [threw |-> FALSE, css |-> line \o rest.css]

\* CssUtils.responsive(breakpoints)
ResponsiveCss(breakpoints) == ResponsiveLines(ObjectEntries(breakpoints))

----------------------------------------------------------------------------
(* Animations (src/unnamed/part_001).  The style elements of the document   *)
(* are a function from their id to their text content.                      *)

\* Animations.styleId
StyleId == "styling-utils-animations"

\* scoped || Animations.styleId  (no scoped id is the empty string)
ElementId(scoped) == IF scoped = "" THEN StyleId ELSE scoped

\* styleEl.textContent || ""  of the element with the id, if there is one
TextContent(els, id) == IF id \in DOMAIN els THEN els[id] ELSE <<>>

\* a name argument: not given, or a text
NoName == [given |-> FALSE, text |-> <<>>]
Named(t) == [given |-> TRUE, text |-> t]

\* name || ...: the name is used when it is given and not empty
UsesName(name) == name.given /\ name.text # <<>>

\* name || `anim_${Animations.counter++}`
AnimName(name, cnt) ==
  IF UsesName(name) THEN name.text
  ELSE <<"a","n","i","m","_">> \o NumberToString(cnt)

RECURSIVE FramesCss(_)
\* css += `${key} { ${styleString} } `  for each entry of frames
FramesCss(entries) ==
  IF entries = <<>> THEN <<>>
  ELSE Head(entries).name \o <<" ", "{", " ">>
         \o StyleString(Head(entries).value) \o <<" ", "}", " ">>
         \o FramesCss(Tail(entries))

KeyframesPrefix == <<"@","k","e","y","f","r","a","m","e","s">>

\* the text keyframes builds (lines 51-59)
KeyframesCss(animName, frames) ==
  KeyframesPrefix \o <<" ">> \o animName \o <<" ", "{">>
    \o FramesCss(ObjectEntries(frames)) \o <<"}">>

\* Animations.keyframes: the counter, the style elements and the result
DoKeyframes(cnt, els, doc, frames, name, scoped) ==
  LET animName == AnimName(name, cnt)
      css == KeyframesCss(animName, frames)
      id == ElementId(scoped)
  IN [counter |-> IF UsesName(name) THEN cnt ELSE cnt + 1,
      els |-> IF doc THEN Put(els, id, TextContent(els, id) \o css)
              ELSE els,
      ret |-> animName]

\* \w of a regular expression
IsWordChar(c) == IsDigit(c) \/ IsUpperCase(c) \/ ToUpperCase(c) # c \/ c = "_"

\* \b between s[p] and the character after it
WordBoundaryAfter(s, p) ==
  IsWordChar(s[p]) # (p + 1 <= Len(s) /\ IsWordChar(s[p + 1]))

\* the last position of the match of  @keyframes\s+${name}\b[\s\S]*?}  that
\* starts at position i, or 0 when there is none; name is not empty and is
\* made of letters, digits, "_" and "-", which stand for themselves in the
\* pattern.  The lazy [\s\S]*? ends at the first "}" after the name.
BlockMatchEnd(s, i, name) ==
  IF ~ HasAt(s, i, KeyframesPrefix) THEN 0
  ELSE LET p == i + Len(KeyframesPrefix)
           q == SkipSpace(s, p)
       IN IF q = p \/ ~ HasAt(s, q, name) THEN 0
          ELSE LET e == q + Len(name) - 1
                   closing == { j \in (e + 1)..Len(s) : s[j] = "}" }
               IN IF ~ WordBoundaryAfter(s, e) \/ closing = {} THEN 0
                  ELSE Min(closing)

RECURSIVE RemoveBlocksFrom(_, _, _)
\* before.replace(regex, "") from position i on
RemoveBlocksFrom(s, i, name) ==
  IF i > Len(s) THEN <<>>
  ELSE LET e == BlockMatchEnd(s, i, name)
       IN IF e > 0 THEN RemoveBlocksFrom(s, e + 1, name)
          ELSE <<s[i]>> \o RemoveBlocksFrom(s, i + 1, name)

\* Animations.removeKeyframes: the style elements and the result
DoRemoveKeyframes(els, doc, name, scoped) ==
  LET id == ElementId(scoped)
  IN IF ~ doc \/ id \notin DOMAIN els THEN [els |-> els, ret |-> FALSE]
     ELSE LET before == TextContent(els, id)
              after == RemoveBlocksFrom(before, 1, name)
              changed == before # after
          IN [els |-> IF changed THEN Put(els, id, after) ELSE els,
              ret |-> changed]

\* Animations.clearAll
DoClearAll(els, doc, scoped) ==
  LET id == ElementId(scoped)
  IN IF doc /\ id \in DOMAIN els THEN Put(els, id, <<>>) ELSE els

----------------------------------------------------------------------------
(* The inputs the model draws from *)

NameA == <<"a">>
NameB == <<"b">>
Names == {NameA, NameB}

\* a variable name that is an array index when it is a property key
Name1 == <<"1">>

Lit111 == <<"#","1","1","1">>
Lit000 == <<"#","0","0","0">>
Rem1 == <<"1","r","e","m">>
Rem2 == <<"2","r","e","m">>

\* A raw value is written as a list of segments: literal text, or an embedded
\* reference  CssVars.get(<q>ref<q>)  or  CssVars.get(<q>ref<q>, <q>fb<q>)
Text(t) == [kind |-> "text", text |-> t, ref |-> <<>>, hasFb |-> FALSE,
            fb |-> <<>>, q |-> "'"]
Ref(r, q) == [kind |-> "ref", text |-> <<>>, ref |-> r, hasFb |-> FALSE,
              fb |-> <<>>, q |-> q]
RefOr(r, f, q) == [kind |-> "ref", text |-> <<>>, ref |-> r, hasFb |-> TRUE,
                   fb |-> f, q |-> q]

\* the text of one segment
RenderSegment(g) ==
  IF g.kind = "text" THEN g.text
  ELSE GetPrefix \o <<g.q>> \o g.ref \o <<g.q>>
         \o (IF g.hasFb THEN <<",", " ", g.q>> \o g.fb \o <<g.q>> ELSE <<>>)
         \o <<")">>

RECURSIVE Render(_)
\* the text of a list of segments
Render(segs) ==
  IF segs = <<>> THEN <<>>
  ELSE RenderSegment(Head(segs)) \o Render(Tail(segs))

\* the raw values passed to set: the empty string, a literal, a reference
\* without a fallback, the example of the documentation, and two references
\* with text between them
Templates ==
  { <<>>,
    <<Text(Lit111)>>,
    <<Ref(NameB, "'")>>,
    <<RefOr(NameB, Lit000, "'")>>,
    <<RefOr(NameA, <<"0">>, "'"), Text(<<"+">>), Ref(NameB, "\"")>> }

RawValues == { Render(t) : t \in Templates }

\* CssVars.get('b")  : the quotes around the name do not match
MismatchedName == GetPrefix \o <<"'", "b", "\"", ")">>

\* CssVars.get('b', '#000")  : the quotes around the fallback do not match
MismatchedFallback ==
  GetPrefix \o <<"'", "b", "'", ",", " ", "'">> \o Lit000 \o <<"\"", ")">>

\* CssVars.got('b')  : a function the pattern does not know
UnknownFunction ==
  <<"C","s","s","V","a","r","s",".","g","o","t","(","'","b","'",")">>

\* raw values that hold a malformed embedded reference
Malformed == {MismatchedName, MismatchedFallback, UnknownFunction}

\* #111;  : a colour followed by the semicolon of a declaration
Terminated == Lit111 \o <<";">>

\* CssVars.get('b', "CssVars.get('a')")  : a reference to b whose fallback is
\* written as a reference to a
Nested ==
  GetPrefix \o <<"'", "b", "'", ",", " ", "\"">>
    \o GetPrefix \o <<"'", "a", "'", ")", "\"", ")">>

\* CssVars.get('a")  : what the pattern leaves of Nested when b is not
\* registered, itself a text the pattern matches
SelfReference == GetPrefix \o <<"'", "a", "\"", ")">>

\* the arguments passed to set: every name with every well-formed raw value,
\* one name with the malformed ones, one with the nested reference, and a
\* name that no value refers to with a colour and with a text that no style
\* declaration accepts
SetArguments ==
  (Names \X RawValues) \cup ({NameA} \X Malformed)
    \cup ({NameB} \X {Nested})
    \cup ({Name1} \X {Lit111, Terminated})

\* the mappings passed to setBatch, as their entries in insertion order
Batches ==
  << <<Entry(NameB, Lit111), Entry(NameA, Render(<<RefOr(NameB, Lit000, "'")>>))>>,
     <<Entry(NameA, Render(<<Ref(NameB, "'")>>)), Entry(NameB, Lit000)>>,
     \* { a: "#111", 1: "CssVars.get('a', '#000')" }
     <<Entry(NameA, Lit111), Entry(Name1, Render(<<RefOr(NameA, Lit000, "'")>>))>> >>

\* the fallbacks passed to get: none, or a text
Fallbacks == { [given |-> FALSE, text |-> <<>>],
               [given |-> TRUE, text |-> Rem1] }

ThemeNames == {"light", "constructor"}

\* the definitions passed to defineTheme, as their entries in insertion order
ThemeDefs ==
  << \* the example of the documentation, widths written in descending order
     <<Entry(NameA, BreakpointMap(<<At(600, Rem2), At(300, Rem1)>>))>>,
     \* a responsive entry that refers to a static entry written after it
     <<Entry(NameA, BreakpointMap(
          <<At(1000, Rem2),
            At(300, Render(<<RefOr(NameB, Lit000, "'")>>))>>)),
       Entry(NameB, StringValue(Lit111))>>,
     \* a static entry and a breakpoint map without entries
     <<Entry(NameB, StringValue(Lit000)),
       Entry(NameA, BreakpointMap(<<>>))>>,
     \* a responsive entry that refers to its own variable
     <<Entry(NameA, BreakpointMap(
          <<At(300, Render(<<RefOr(NameA, <<"1">>, "'"), Text(<<"2">>)>>))>>))>>,
     \* a responsive entry and a static entry written after it that refer to
     \* each other
     <<Entry(NameA, BreakpointMap(
          <<At(300, Render(<<RefOr(NameB, Rem1, "'")>>))>>)),
       Entry(NameB, StringValue(Render(<<RefOr(NameA, Lit000, "'")>>)))>> >>

\* the names passed to Animations.keyframes: none, the empty string, a name,
\* and a name of the form the counter generates
FadeName == <<"f","a","d","e">>
Anim0 == <<"a","n","i","m","_","0">>
NameArgs == {NoName, Named(<<>>), Named(FadeName), Named(Anim0)}

\* the names passed to Animations.removeKeyframes
RemoveNames == {FadeName, Anim0}

\* the scoped ids passed to the Animations operations: none, or an id
ScopedIds == {"", "modal"}

\* the frames passed to keyframes: none, and the example of the documentation
\* { from: { opacity: 0 }, to: { opacity: 1 } }
FramesInputs ==
  << <<>>,
     <<Entry(<<"f","r","o","m">>, <<Entry(<<"o","p","a","c","i","t","y">>, Num(0))>>),
       Entry(<<"t","o">>, <<Entry(<<"o","p","a","c","i","t","y">>, Num(1))>>)>> >>

\* a key as it is written in the object passed to CssUtils.responsive: an
\* alias, a number of pixels, or a range that is passed through
\* JSON.stringify; a bound of a range is absent, an alias or a number
AliasKey(a) == [kind |-> "alias", str |-> a]
PixelKey(n) == [kind |-> "number", num |-> n]
NoBound == [kind |-> "absent"]
RangeKey(min, max) == [kind |-> "range", min |-> min, max |-> max]

\* JSON.stringify of a bound and of a range
BoundText(b) ==
  IF b.kind = "number" THEN NumberToString(b.num)
  ELSE <<"\"">> \o b.str \o <<"\"">>

RangeText(min, max) ==
  <<"{">>
    \o (IF min.kind = "absent" THEN <<>>
        ELSE <<"\"","m","i","n","\"",":">> \o BoundText(min))
    \o (IF min.kind = "absent" \/ max.kind = "absent" THEN <<>> ELSE <<",">>)
    \o (IF max.kind = "absent" THEN <<>>
        ELSE <<"\"","m","a","x","\"",":">> \o BoundText(max))
    \o <<"}">>

\* the property key a written key becomes: a number is converted to its
\* decimal text
PropertyKey(key) ==
  IF key.kind = "number" THEN NumberToString(key.num)
  ELSE IF key.kind = "range" THEN RangeText(key.min, key.max)
  ELSE key.str

\* the object whose properties were written as the pairs [key, styles]
Breakpoints(written) ==
  [i \in 1..Len(written) |->
     Entry(PropertyKey(written[i].key), written[i].styles)]

At2(key, styles) == [key |-> key, styles |-> styles]

ColorRed == <<Entry(<<"c","o","l","o","r">>, Str(<<"r","e","d">>))>>

\* { fontSize: "14px", transform: "rotate(10deg)" }
FontAndTransform ==
  <<Entry(<<"f","o","n","t","S","i","z","e">>, Str(<<"1","4","p","x">>)), Entry(<<"t","r","a","n","s","f","o","r","m">>, Str(<<"r","o","t","a","t","e","(","1","0","d","e","g",")">>))>>

\* the objects passed to CssUtils.responsive, as their pairs in the order
\* they were written
ResponsiveInputs ==
  << <<At2(AliasKey(<<"s","m">>), ColorRed)>>,
     <<At2(AliasKey(<<"x","l">>), FontAndTransform)>>,
     <<At2(PixelKey(768), ColorRed)>>,
     <<At2(RangeKey(AliasKey(<<"s","m">>), AliasKey(<<"l","g">>)), ColorRed)>>,
     <<At2(RangeKey(PixelKey(576), NoBound), ColorRed)>>,
     <<At2(AliasKey(<<"s","m">>), FontAndTransform), At2(AliasKey(<<"m","d">>), ColorRed)>>,
     <<At2(AliasKey(<<"x","s">>), ColorRed),
       At2(RangeKey(NoBound, AliasKey(<<"l","g">>)), ColorRed)>> >>

----------------------------------------------------------------------------
(* State *)

VARIABLES
  vars,          \* CssVars.vars (keys without their "--")
  themes,        \* CssVars.themes, its own properties
  currentTheme,  \* CssVars.currentTheme
  hasDocument,   \* typeof document !== "undefined"
  rootStyle,     \* document.documentElement.style, the custom properties
  hasStyleEl,    \* the element #styling-utils-responsive-vars exists
  nodes,         \* its text nodes, in order
  created,       \* how many elements with that id were created
  last,          \* the last call: its arguments, result and error
  lastApplied,   \* history: the theme of the last applyTheme that returned
  definedAs,     \* history: the last definition passed to defineTheme for
                 \* each theme name, and the one passed before it
  calls,         \* history: the number of calls made so far
  counter,       \* Animations.counter
  styleEls,      \* the style elements Animations made: id -> text content
  returned,      \* history: the names keyframes has returned
  unnamed        \* history: the number of keyframes calls without a name
                 \* (none given, or the empty string)

vars_ == <<vars, themes, currentTheme, hasDocument, rootStyle, hasStyleEl,
           nodes, created, last, lastApplied, definedAs, calls, counter,
           styleEls, returned, unnamed>>

Call(op, name, value, theme, idx, fb, ret, err) ==
  [op |-> op, name |-> name, value |-> value, theme |-> theme, idx |-> idx,
   fb |-> fb, ret |-> ret, err |-> err]

NoFallback == [given |-> FALSE, text |-> <<>>]

Current == Registry(vars, rootStyle, hasStyleEl, nodes, created)

\* one more call of the registry, while the run has calls left; the registry
\* does not touch what Animations keeps
Tick ==
  /\ calls < MaxCalls
  /\ calls' = calls + 1
  /\ UNCHANGED <<counter, styleEls, returned, unnamed>>

Store(st) ==
  /\ vars' = st.vars
  /\ rootStyle' = st.root
  /\ hasStyleEl' = st.hasStyleEl
  /\ nodes' = st.nodes
  /\ created' = st.created

Init ==
  /\ vars = EmptyMap
  /\ themes = [t \in {} |-> <<>>]
  /\ currentTheme = Null
  /\ hasDocument \in BOOLEAN
  /\ rootStyle = EmptyMap
  /\ hasStyleEl = FALSE
  /\ nodes = <<>>
  /\ created = 0
  /\ last = Call("init", <<>>, <<>>, Null, 0, NoFallback, <<>>, "none")
  /\ lastApplied = Null
  /\ definedAs = [t \in {} |-> <<>>]
  /\ calls = 0
  /\ counter = 0
  /\ styleEls = [id \in {} |-> <<>>]
  /\ returned = {}
  /\ unnamed = 0

\* CssVars.set(name, value)
Set ==
  \E arg \in SetArguments :
    LET name == arg[1]
        value == arg[2]
        st == DoSet(Current, hasDocument, name, value)
    IN /\ Tick
       /\ Store(st)
       /\ last' = Call("set", name, value, Null, 0, NoFallback,
                       SetResult(name), "none")
       /\ UNCHANGED <<themes, currentTheme, hasDocument, lastApplied,
                      definedAs>>

\* CssVars.setBatch(variables)
SetBatch ==
  \E k \in 1..Len(Batches) :
    LET st == DoSetBatch(Current, hasDocument, ObjectEntries(Batches[k]))
    IN /\ Tick
       /\ Store(st)
       /\ last' = Call("setBatch", <<>>, <<>>, Null, k, NoFallback, <<>>,
                       "none")
       /\ UNCHANGED <<themes, currentTheme, hasDocument, lastApplied,
                      definedAs>>

\* CssVars.defineTheme(themeName, variables)
DefineTheme ==
  \E themeName \in ThemeNames, k \in 1..Len(ThemeDefs) :
    /\ Tick
    /\ themes' = Define(themes, themeName, ThemeDefs[k])
    /\ definedAs' = Put(definedAs, themeName,
                        [now |-> ThemeDefs[k],
                         before |-> IF themeName \in DOMAIN definedAs
                                    THEN definedAs[themeName].now
                                    ELSE <<>>])
    /\ last' = Call("defineTheme", <<>>, <<>>, themeName, k, NoFallback,
                    <<>>, "none")
    /\ UNCHANGED <<vars, currentTheme, hasDocument, rootStyle, hasStyleEl,
                   nodes, created, lastApplied>>

\* CssVars.applyTheme(themeName)
ApplyTheme ==
  \E themeName \in ThemeNames :
    LET theme == ThemeLookup(themes, themeName)
    IN IF ~ theme.defined
       THEN /\ Tick
            /\ last' = Call("applyTheme", <<>>, <<>>, themeName, 0,
                            NoFallback, <<>>, "undefined-theme")
            /\ UNCHANGED <<vars, themes, currentTheme, hasDocument, rootStyle,
                           hasStyleEl, nodes, created, lastApplied, definedAs>>
       ELSE LET st == DoApplyTheme(Current, hasDocument, theme.entries)
            IN /\ Tick
               /\ currentTheme' = themeName
               /\ Store(st)
               /\ last' = Call("applyTheme", <<>>, <<>>, themeName, 0,
                               NoFallback, <<>>,
                               IF st.threw THEN "TypeError" ELSE "none")
               /\ lastApplied' = IF st.threw THEN lastApplied ELSE themeName
               /\ UNCHANGED <<themes, hasDocument, definedAs>>

\* CssVars.get(name, fallback)
GetVar ==
  \E name \in Names, fb \in Fallbacks :
    /\ Tick
    /\ last' = Call("get", name, <<>>, Null, 0, fb,
                    Get(vars, name, fb.given, fb.text), "none")
    /\ UNCHANGED <<vars, themes, currentTheme, hasDocument, rootStyle,
                   hasStyleEl, nodes, created, lastApplied, definedAs>>

\* CssVars.getCurrentTheme()
GetCurrentTheme == currentTheme

Next == Set \/ SetBatch \/ DefineTheme \/ ApplyTheme \/ GetVar

Spec == Init /\ [][Next]_vars_

----------------------------------------------------------------------------
(* The operations of Animations and CssUtils.responsive *)

CssCall(op, name, scoped, idx, ret, before, err) ==
  [op |-> op, name |-> name, scoped |-> scoped, idx |-> idx, ret |-> ret,
   before |-> before, err |-> err]

\* one more call, while the run has calls left; these operations do not
\* touch the registry
CssTick ==
  /\ calls < MaxCalls
  /\ calls' = calls + 1
  /\ UNCHANGED <<vars, themes, currentTheme, hasDocument, rootStyle,
                 hasStyleEl, nodes, created, lastApplied, definedAs>>

\* Animations.keyframes(frames, name, scoped); the call record keeps the text
\* the style element held before the call
Keyframes ==
  \E k \in 1..Len(FramesInputs), name \in NameArgs, scoped \in ScopedIds :
    LET r == DoKeyframes(counter, styleEls, hasDocument, FramesInputs[k],
                         name, scoped)
    IN /\ CssTick
       /\ counter' = r.counter
       /\ styleEls' = r.els
       /\ returned' = returned \cup {r.ret}
       /\ unnamed' = IF name.given /\ name.text # <<>> THEN unnamed
                     ELSE unnamed + 1
       /\ last' = CssCall("keyframes", name, scoped, k, r.ret,
                          TextContent(styleEls, ElementId(scoped)), "none")

\* Animations.removeKeyframes(name, scoped)
RemoveKeyframes ==
  \E name \in RemoveNames, scoped \in ScopedIds :
    LET r == DoRemoveKeyframes(styleEls, hasDocument, name, scoped)
    IN /\ CssTick
       /\ styleEls' = r.els
       /\ last' = CssCall("removeKeyframes", Named(name), scoped, 0, r.ret,
                          TextContent(styleEls, ElementId(scoped)), "none")
       /\ UNCHANGED <<counter, returned, unnamed>>

\* Animations.clearAll(scoped)
ClearAll ==
  \E scoped \in ScopedIds :
    /\ CssTick
    /\ styleEls' = DoClearAll(styleEls, hasDocument, scoped)
    /\ last' = CssCall("clearAll", NoName, scoped, 0, <<>>,
                       TextContent(styleEls, ElementId(scoped)), "none")
    /\ UNCHANGED <<counter, returned, unnamed>>

\* CssUtils.responsive(breakpoints)
Responsive ==
  \E k \in 1..Len(ResponsiveInputs) :
    LET r == ResponsiveCss(Breakpoints(ResponsiveInputs[k]))
    IN /\ CssTick
       /\ last' = CssCall("responsive", NoName, "", k, r.css, <<>>,
                          IF r.threw THEN "SyntaxError" ELSE "none")
       /\ UNCHANGED <<counter, styleEls, returned, unnamed>>

NextCss == Keyframes \/ RemoveKeyframes \/ ClearAll \/ Responsive

SpecCss == Init /\ [][NextCss]_vars_

----------------------------------------------------------------------------
(* Properties *)

\* s contains the text t
Contains(s, t) == \E i \in 1..Len(s) : HasAt(s, i, t)

\* the step is a call of the operation op
Called(op) == calls' = calls + 1 /\ last'.op = op

\* what the documentation says one segment of a raw value becomes
SubstitutionOf(vs, g) ==
  IF g.kind = "text" THEN g.text
  ELSE IF g.ref \in DOMAIN vs THEN vs[g.ref]
  ELSE IF g.hasFb THEN g.fb
  ELSE <<"v","a","r","(","-","-">> \o g.ref \o <<")">>

RECURSIVE Substituted(_, _)
Substituted(vs, segs) ==
  IF segs = <<>> THEN <<>>
  ELSE SubstitutionOf(vs, Head(segs)) \o Substituted(vs, Tail(segs))

\* the raw values that are one embedded reference with a fallback
SingleRefs ==
  { t \in Templates : Len(t) = 1 /\ t[1].kind = "ref" /\ t[1].hasFb }

TwoRefs == <<RefOr(NameA, <<"0">>, "'"), Text(<<"+">>), Ref(NameB, "\"")>>

\* C1: after set(name, v) with v free of the text CssVars.get( , get(name)
\* returns exactly v, with and without a fallback, whatever came before.
GetAfterSetReturnsValue ==
  (last.op = "set" /\ ~ Contains(last.value, GetPrefix))
    => \A fb \in Fallbacks :
         Get(vars, last.name, fb.given, fb.text) = last.value

\* C1 witness: the empty string was set, after other calls
EmptyValueWasSet ==
  /\ last.op = "set"
  /\ last.value = <<>>
  /\ calls > 1
  /\ last.name \in DOMAIN vars

\* C2 as stated: set(name, <one reference to ref with fallback f>) stores f
\* and returns f when ref is not registered, and stores and returns the value
\* w of ref when it is.
SetStoresAndReturnsSubstitution ==
  [][\A t \in SingleRefs :
       (Called("set") /\ last'.value = Render(t))
         => LET w == IF t[1].ref \in DOMAIN vars THEN vars[t[1].ref]
                     ELSE t[1].fb
            IN /\ vars'[last'.name] = w
               /\ last'.ret = w]_vars_

\* C2 as amended: the same call stores f (or w) under name, so that get(name)
\* returns it; the call itself returns var(--name).
SetStoresSubstitution ==
  [][\A t \in SingleRefs :
       (Called("set") /\ last'.value = Render(t))
         => LET w == IF t[1].ref \in DOMAIN vars THEN vars[t[1].ref]
                     ELSE t[1].fb
            IN /\ last'.name \in DOMAIN vars'
               /\ vars'[last'.name] = w
               /\ Get(vars', last'.name, FALSE, <<>>) = w
               /\ last'.ret = <<"v","a","r","(","-","-">> \o last'.name
                                \o <<")">>]_vars_

\* C2 witness: the reference was to a registered variable, whose value was
\* stored and not the fallback
RegisteredRefWasSubstituted ==
  /\ last.op = "set"
  /\ last.name = NameA
  /\ last.value = Render(<<RefOr(NameB, Lit000, "'")>>)
  /\ NameB \in DOMAIN vars
  /\ vars[NameB] = Lit111
  /\ vars[NameA] = Lit111

\* C3: set replaces every embedded reference, left to right, by the stored
\* value of the variable if it is registered, else by the fallback if there is
\* one, else by var(--ref); the text around the references is kept.
EveryReferenceIsSubstituted ==
  [][\A t \in Templates :
       (Called("set") /\ last'.value = Render(t))
         => vars'[last'.name] = Substituted(vars, t)]_vars_

\* C3 witness: of two references the first was to a variable registered with
\* the empty string (its fallback was not used) and the second to a variable
\* that is not registered and has no fallback
EmptyStoredValueWasSubstituted ==
  /\ last.op = "set"
  /\ last.value = Render(TwoRefs)
  /\ last.name = NameA
  /\ NameB \notin DOMAIN vars
  /\ vars[NameA] = <<"+">> \o VarRef(NameB)

\* the variables a call is asked to set
Targets(call, table) ==
  IF call.op = "set" THEN {call.name}
  ELSE IF call.op = "setBatch"
  THEN { Batches[call.idx][i].name : i \in 1..Len(Batches[call.idx]) }
  ELSE IF call.op = "applyTheme"
  THEN LET es == ThemeLookup(table, call.theme).entries
       IN { es[i].name : i \in 1..Len(es) }
  ELSE {}

\* C4: resolution is eager: a call that is not asked to set a leaves the value
\* stored under a, and what get(a) returns, as it was, also when it changes or
\* first registers a variable that a was resolved from.
StoredValueIsFrozen ==
  [][\A a \in Names :
       (calls' = calls + 1 /\ a \in DOMAIN vars
          /\ a \notin Targets(last', themes))
         => /\ a \in DOMAIN vars'
            /\ vars'[a] = vars[a]
            /\ Get(vars', a, TRUE, Rem1) = vars[a]]_vars_

\* C4 witness: a was resolved to var(--b) while b was not registered, and b
\* has been set since by a call of its own
StaleReferenceKept ==
  /\ NameA \in DOMAIN vars
  /\ vars[NameA] = VarRef(NameB)
  /\ last.op = "set"
  /\ last.name = NameB
  /\ vars[NameB] = Lit111

\* C5: set returns var(--name), whatever the value and the registry hold.
SetReturnsReference ==
  last.op = "set"
    => last.ret = <<"v","a","r","(","-","-">> \o last.name \o <<")">>

\* C5 witness: set returned the reference although the value it stored was
\* the text of other variables
SetReturnedReference ==
  /\ last.op = "set"
  /\ last.value = Render(TwoRefs)
  /\ last.ret = VarRef(last.name)
  /\ vars[last.name] # last.value
  /\ vars[last.name] # last.ret

\* C6 as stated: applyTheme of a name that was never passed to defineTheme
\* fails with the undefined-theme error and changes nothing.
UndefinedThemeAlwaysFails ==
  [][(Called("applyTheme") /\ last'.theme \notin DOMAIN definedAs)
       => /\ last'.err = "undefined-theme"
          /\ currentTheme' = currentTheme
          /\ vars' = vars
          /\ rootStyle' = rootStyle
          /\ hasStyleEl' = hasStyleEl
          /\ nodes' = nodes]_vars_

\* C7 as stated: getCurrentTheme() returns null before an applyTheme call has
\* returned, and afterwards the name passed to the last applyTheme call that
\* returned, whatever calls failed in between.
CurrentThemeIsLastApplied == GetCurrentTheme = lastApplied

\* the names a definition gives a value to
NamesOf(def) == { def[i].name : i \in 1..Len(def) }

\* C8: after defineTheme(t, d1) and defineTheme(t, d2), applyTheme(t) sets the
\* variables of d2 and no others: a static value of d2 without references is
\* stored as written, and a variable that d2 does not define (one that only d1
\* defined among them) is neither registered nor changed.
SecondDefinitionReplacesFirst ==
  [][\A t \in ThemeNames :
       (Called("applyTheme") /\ last'.theme = t /\ last'.err = "none"
          /\ t \in DOMAIN definedAs)
         => LET d2 == definedAs[t].now
            IN /\ \A i \in 1..Len(d2) :
                    /\ d2[i].name \in DOMAIN vars'
                    /\ (d2[i].value.kind = "string"
                          /\ ~ Contains(d2[i].value.str, GetPrefix))
                         => vars'[d2[i].name] = d2[i].value.str
               /\ \A n \in Names \ NamesOf(d2) :
                    /\ (n \in DOMAIN vars') = (n \in DOMAIN vars)
                    /\ n \in DOMAIN vars => vars'[n] = vars[n]
                    /\ GetPropertyValue(rootStyle', n)
                         = GetPropertyValue(rootStyle, n)]_vars_

\* C8 witness: a theme defined twice was applied, and a variable that only
\* its first definition defined is not registered
FirstDefinitionNotApplied ==
  /\ last.op = "applyTheme"
  /\ last.err = "none"
  /\ last.theme \in DOMAIN definedAs
  /\ \E n \in NamesOf(definedAs[last.theme].before)
               \ NamesOf(definedAs[last.theme].now) : n \notin DOMAIN vars
  /\ NamesOf(definedAs[last.theme].now) \subseteq DOMAIN vars

IsResponsive(e) == e.value.kind = "object"

\* the widths of a breakpoint map in ascending order
AscendingWidths(bps) ==
  LET W == { bps[i].w : i \in 1..Len(bps) }
  IN [i \in 1..Len(bps) |->
        CHOOSE w \in W : Cardinality({ x \in W : x < w }) = i - 1]

\* the value a breakpoint map gives for a width
ValueOfWidth(bps, w) == (CHOOSE i \in 1..Len(bps) : bps[i].w = w)

\* '@media (min-width: Wpx) { :root { --name: V; } }'
RuleText(w, name, v) ==
  <<"@","m","e","d","i","a"," ","(","m","i","n","-","w","i","d","t","h",":"," ">>
    \o NumberToString(w) \o <<"p","x",")"," ","{"," ",":","r","o","o","t"," ","{"," ">>
    \o <<"-","-">> \o name \o <<":"," ">> \o v \o <<";"," ","}"," ","}">>

RECURSIVE RulesFrom(_, _, _, _, _)
\* the rules of the widths asc[i], asc[i+1], ... , one on a line
RulesFrom(vs, name, bps, asc, i) ==
  IF i > Len(asc) THEN <<>>
  ELSE (IF i > 1 THEN <<"\n">> ELSE <<>>)
         \o RuleText(asc[i], name,
                     ReplaceRefs(vs, bps[ValueOfWidth(bps, asc[i])].v))
         \o RulesFrom(vs, name, bps, asc, i + 1)

\* C9: with a document, applyTheme gives each responsive variable the
\* (resolved) value of its numerically smallest width, in the map and on the
\* root style, and appends for it one text of media rules, one rule per width
\* in ascending order of width, each assigning the resolved value of its
\* width, whatever order the widths were written in.  A value is resolved
\* against the variables as they are when its entry is applied: the entries
\* of the theme applied before it have their new values, the responsive
\* entries after it still their old ones.
ResponsiveEntryIsApplied ==
  [][(Called("applyTheme") /\ last'.err = "none" /\ hasDocument)
       => LET R == SelectSeq(ThemeLookup(themes, last'.theme).entries,
                             IsResponsive)
          IN /\ Len(nodes') = Len(nodes) + Len(R)
             /\ \A k \in 1..Len(R) :
                  LET n == R[k].name
                      bps == R[k].value.bps
                      later == { R[j].name : j \in (k + 1)..Len(R) }
                      asc == AscendingWidths(bps)
                      after == [m \in (DOMAIN vars' \ later)
                                        \cup (DOMAIN vars \cap later) |->
                                  IF m \in later THEN vars[m] ELSE vars'[m]]
                      before == [m \in (DOMAIN after \ {n})
                                         \cup (DOMAIN vars \cap {n}) |->
                                   IF m = n THEN vars[m] ELSE after[m]]
                      base == ReplaceRefs(before,
                                          bps[ValueOfWidth(bps, asc[1])].v)
                  IN /\ n \in DOMAIN vars'
                     /\ {vars'[n], Get(vars', n, TRUE, Lit000),
                         GetPropertyValue(rootStyle', n)} = {base}
                     /\ nodes'[Len(nodes) + k] =
                          RulesFrom(after, n, bps, asc, 1)]_vars_

\* C9 witness: the example of the documentation, its widths written in
\* descending order, was applied with a document
SmallestWidthBecameBase ==
  /\ last.op = "applyTheme"
  /\ last.err = "none"
  /\ hasDocument
  /\ last.theme \in DOMAIN themes
  /\ themes[last.theme] = ThemeDefs[1]
  /\ vars[NameA] = Rem1
  /\ rootStyle[NameA] = Rem1
  /\ Len(nodes) = 1
  /\ nodes[1] = RuleText(300, NameA, Rem1) \o <<"\n">>
                  \o RuleText(600, NameA, Rem2)

\* no value of the definition contains the text CssVars.get(
NoReferences(def) ==
  \A i \in 1..Len(def) :
    /\ ~ Contains(def[i].value.str, GetPrefix)
    /\ \A j \in 1..Len(def[i].value.bps) :
         ~ Contains(def[i].value.bps[j].v, GetPrefix)

\* the step is a second applyTheme of the theme that the call before it
\* applied, both returning, with a document and a responsive entry
AppliedAgain(k) ==
  /\ Called("applyTheme")
  /\ last'.err = "none"
  /\ last.op = "applyTheme"
  /\ last.err = "none"
  /\ last.theme = last'.theme
  /\ hasDocument
  /\ k > 0

\* C10 as stated: applying a theme with a responsive entry again appends a
\* copy of the text the application before it appended, and leaves the
\* variable map as it was when the values contain no references.
RepeatedApplyAppendsCopy ==
  [][LET def == ThemeLookup(themes, last'.theme).entries
         k == Len(SelectSeq(def, IsResponsive))
     IN AppliedAgain(k)
          => /\ nodes' = nodes \o SubSeq(nodes, Len(nodes) - k + 1, Len(nodes))
             /\ NoReferences(def) => vars' = vars]_vars_

\* C10 as amended: applying the theme again appends one more text for each
\* responsive entry and keeps what the container held; when the values contain
\* no references the appended texts are copies of those of the application
\* before, and the variable map is as it was.
RepeatedApplyAppendsAgain ==
  [][LET def == ThemeLookup(themes, last'.theme).entries
         k == Len(SelectSeq(def, IsResponsive))
     IN AppliedAgain(k)
          => /\ Len(nodes') = Len(nodes) + k
             /\ SubSeq(nodes', 1, Len(nodes)) = nodes
             /\ NoReferences(def)
                  => /\ nodes' = nodes \o SubSeq(nodes, Len(nodes) - k + 1,
                                                 Len(nodes))
                     /\ vars' = vars]_vars_

\* C10 witness: a theme without references was applied twice in a row and
\* the container holds its media rules twice
MediaRulesHeldTwice ==
  /\ last.op = "applyTheme"
  /\ last.err = "none"
  /\ last.theme \in DOMAIN themes
  /\ themes[last.theme] = ThemeDefs[1]
  /\ Len(nodes) = 2
  /\ nodes[1] = nodes[2]
  /\ nodes[1] # <<>>
  /\ vars[NameA] = Rem1

\* C11: get never fails and changes nothing; it returns the stored value of a
\* registered name, whether or not a fallback is given, else the fallback if
\* one is given, else var(--name).
GetReturnsStoredElseFallback ==
  [][Called("get")
       => /\ UNCHANGED <<vars, themes, currentTheme, hasDocument, rootStyle,
                         hasStyleEl, nodes, created>>
          /\ last'.err = "none"
          /\ last'.ret =
               IF last'.name \in DOMAIN vars THEN vars[last'.name]
               ELSE IF last'.fb.given THEN last'.fb.text
               ELSE <<"v","a","r","(","-","-">> \o last'.name \o <<")">>]_vars_

\* C11 witness: get was given a fallback for a registered name and returned
\* the stored value, which is not the fallback
StoredValueBeatFallback ==
  /\ last.op = "get"
  /\ last.fb.given
  /\ last.name \in DOMAIN vars
  /\ last.ret = vars[last.name]
  /\ last.ret # last.fb.text

\* every variable that the definition of themeName names is registered after
\* the step
EveryEntryApplied(themeName) ==
  /\ themeName \in DOMAIN themes
  /\ \A i \in 1..Len(themes[themeName]) :
       themes[themeName][i].name \in DOMAIN vars'

\* C12: applyTheme(T) either applies every static and responsive definition
\* of T, or, if it throws, leaves the variable map, the current theme and the
\* style element as they were.
ThemeIsAppliedAtomically ==
  [][Called("applyTheme")
       => IF last'.err = "none"
          THEN last'.theme \in DOMAIN themes => EveryEntryApplied(last'.theme)
          ELSE UNCHANGED <<vars, currentTheme, rootStyle, hasStyleEl,
                           nodes>>]_vars_

ContextOf(before, after, es, i) ==
  LET earlier == { es[j].name : j \in 1..(i - 1) }
  IN [n \in DOMAIN before \cup earlier |->
        IF n \in earlier THEN after[n] ELSE before[n]]

\* every entry of es got its value resolved in its context
AppliedInOrder(es) ==
  \A i \in 1..Len(es) :
    /\ es[i].name \in DOMAIN vars'
    /\ vars'[es[i].name] = ReplaceRefs(ContextOf(vars, vars', es, i),
                                       es[i].value)

\* C14 as stated: setBatch applies set once per entry in the insertion order
\* of the mapping: a reference to a name inserted earlier is resolved to that
\* entry's new value, one to a name inserted later against the state before
\* the batch.
BatchAppliedInInsertionOrder ==
  [][Called("setBatch") => AppliedInOrder(Batches[last'.idx])]_vars_

\* the order in which the properties of an object are enumerated: names that
\* are array indices first, by ascending number, then the other names as
\* they were inserted
EnumerationOrder(written) ==
  LET n == Len(written)
      Before(x, y) ==
        IF IsArrayIndex(written[x].name)
        THEN IsArrayIndex(written[y].name)
               => ToIndex(written[x].name) < ToIndex(written[y].name)
        ELSE ~ IsArrayIndex(written[y].name) /\ x < y
      o == CHOOSE f \in [1..n -> 1..n] :
             /\ \A i, j \in 1..n : i # j => f[i] # f[j]
             /\ \A i, j \in 1..n : i < j => Before(f[i], f[j])
  IN [i \in 1..n |-> written[o[i]]]

\* C14 as amended: setBatch applies set once per entry in enumeration order;
\* a reference to a name applied earlier in that order is resolved to the new
\* value, one to a name applied later against the state before the batch.
BatchAppliedInEnumerationOrder ==
  [][Called("setBatch")
       => AppliedInOrder(EnumerationOrder(Batches[last'.idx]))]_vars_

\* C14 witness: the first call was setBatch({ a: "#111", 1: <reference to a
\* with fallback #000> }); the entry 1 was applied first and got the fallback
IndexNameWasAppliedFirst ==
  /\ calls = 1
  /\ last.op = "setBatch"
  /\ last.idx = 3
  /\ vars[NameA] = Lit111
  /\ vars[Name1] = Lit000

\* the definition has a breakpoint map without entries
HasEmptyMap(def) ==
  \E i \in 1..Len(def) : IsResponsive(def[i]) /\ def[i].value.bps = <<>>

\* the variables the k-th responsive entry of R is resolved against: the
\* entries of the theme applied before it have their new values, the
\* variable itself and the responsive entries after it their old ones
BaseContext(R, k) ==
  LET held == { R[j].name : j \in k..Len(R) }
  IN [m \in (DOMAIN vars' \ held) \cup (DOMAIN vars \cap held) |->
        IF m \in held THEN vars[m] ELSE vars'[m]]

\* C15: without a document, set, setBatch and applyTheme fail only where they
\* fail with a document too (an undefined theme, a breakpoint map without
\* entries); they write the variable map only: no root style, no style
\* element, no media rules; and a responsive variable gets the resolved value
\* of its smallest width.
NoDocumentUpdatesMapOnly ==
  [][(~ hasDocument
        /\ (Called("set") \/ Called("setBatch") \/ Called("applyTheme")))
       => LET found == ThemeLookup(themes, last'.theme)
              R == SelectSeq(found.entries, IsResponsive)
          IN /\ rootStyle' = EmptyMap
             /\ ~ hasStyleEl'
             /\ nodes' = <<>>
             /\ created' = 0
             /\ last'.err # "none"
                  => /\ last'.op = "applyTheme"
                     /\ (~ found.defined \/ HasEmptyMap(found.entries))
             /\ (last'.op = "applyTheme" /\ last'.err = "none")
                  => \A k \in 1..Len(R) :
                       LET bps == R[k].value.bps
                           least == AscendingWidths(bps)[1]
                       IN /\ R[k].name \in DOMAIN vars'
                          /\ vars'[R[k].name] =
                               ReplaceRefs(BaseContext(R, k),
                                           bps[ValueOfWidth(bps, least)].v)]_vars_

\* C15 witness: without a document the example of the documentation was
\* applied; a has the value of the smallest width and nothing was generated
ResponsiveThemeAppliedWithoutDocument ==
  /\ ~ hasDocument
  /\ last.op = "applyTheme"
  /\ last.err = "none"
  /\ last.theme \in DOMAIN themes
  /\ themes[last.theme] = ThemeDefs[1]
  /\ vars[NameA] = Rem1
  /\ rootStyle = EmptyMap
  /\ nodes = <<>>
  /\ ~ hasStyleEl

\* C16 as stated: a value with a malformed embedded reference (mismatched
\* quotes around the name or the fallback, an unknown function name) is stored
\* verbatim by set, without an error.
MalformedReferenceIsKept ==
  [][(Called("set") /\ last'.value \in Malformed)
       => /\ last'.err = "none"
          /\ vars'[last'.name] = last'.value]_vars_

\* C16 as amended: set raises no error for a malformed reference; with an
\* unknown function name the value is stored verbatim, but quotes that do not
\* match each other (' with ") are accepted and the reference is substituted
\* like a well-formed one.
MismatchedQuotesAreSubstituted ==
  [][(Called("set") /\ last'.value \in Malformed)
       => /\ last'.err = "none"
          /\ last'.value = UnknownFunction
               => vars'[last'.name] = UnknownFunction
          /\ last'.value = MismatchedName
               => vars'[last'.name] =
                    (IF NameB \in DOMAIN vars THEN vars[NameB]
                     ELSE <<"v","a","r","(","-","-","b",")">>)
          /\ last'.value = MismatchedFallback
               => vars'[last'.name] =
                    (IF NameB \in DOMAIN vars THEN vars[NameB]
                     ELSE Lit000)]_vars_

\* C16 witness: set("a", "CssVars.get('b\")") was called with b registered,
\* and a holds the value of b, not the text passed
MismatchedReferenceWasSubstituted ==
  /\ last.op = "set"
  /\ last.name = NameA
  /\ last.value = MismatchedName
  /\ NameB \in DOMAIN vars
  /\ vars[NameB] = Lit111
  /\ vars[NameA] = Lit111

\* C17: defineTheme(themeName, definitions) never fails, whatever the
\* definitions hold; it makes definitions the entry of themeName in the theme
\* table, leaves the entries of the other names as they were, and changes
\* neither the variable map, nor the current theme, nor the root style, nor
\* the style element.
DefineThemeOnlyRegisters ==
  [][Called("defineTheme")
       => /\ last'.err = "none"
          /\ UNCHANGED <<vars, currentTheme, rootStyle, hasStyleEl, nodes,
                         created>>
          /\ last'.theme \in DOMAIN themes'
          /\ themes'[last'.theme] = ThemeDefs[last'.idx]
          /\ \A t \in ThemeNames \ {last'.theme} :
               ThemeLookup(themes', t) = ThemeLookup(themes, t)]_vars_

\* C17 witness: the active theme was defined again, with a definition that
\* cannot be applied (a breakpoint map without entries), and the variables
\* the theme had set are still there
ActiveThemeWasRedefined ==
  /\ last.op = "defineTheme"
  /\ last.err = "none"
  /\ currentTheme = last.theme
  /\ lastApplied = last.theme
  /\ last.idx = 3
  /\ themes[last.theme] = ThemeDefs[3]
  /\ vars # EmptyMap

\* the text a block of the animation name begins with in what keyframes
\* generates
BlockHeader(name) == KeyframesPrefix \o <<" ">> \o name \o <<" ", "{">>

\* C18: with a document, removeKeyframes(name) called right after
\* keyframes(frames, name) with the same scoped id returns true and leaves the
\* style element with the text it had before the keyframes call, and the
\* other style elements as they are; when the style element holds no block
\* of that name it returns false and changes nothing.
RemoveKeyframesUndoesKeyframes ==
  [][(Called("removeKeyframes") /\ hasDocument)
       => LET id == ElementId(last'.scoped)
          IN IF /\ last.op = "keyframes"
                /\ last.ret = last'.name.text
                /\ last.scoped = last'.scoped
             THEN /\ last'.ret = TRUE
                  /\ TextContent(styleEls', id) = last.before
                  /\ \A other \in DOMAIN styleEls \ {id} :
                       TextContent(styleEls', other) = styleEls[other]
             ELSE ~ Contains(TextContent(styleEls, id),
                             BlockHeader(last'.name.text))
                    => /\ last'.ret = FALSE
                       /\ styleEls' = styleEls]_vars_

\* C19: a keyframes call without a name (none given, or the empty string)
\* returns anim_(k-1) when it is the k-th such call, a name that no earlier
\* keyframes call returned, with or without a name; a call with a name leaves
\* the counter as it is.
UnnamedKeyframesGetFreshNames ==
  [][Called("keyframes")
       => IF last'.name.given /\ last'.name.text # <<>>
          THEN counter' = counter
          ELSE /\ last'.ret = <<"a","n","i","m","_">> \o NumberToString(unnamed)
               /\ last'.ret \notin returned]_vars_

\* the pixel value the documentation gives for an alias
AliasPixels(a) ==
  CASE a = <<"x","s">> -> 0
    [] a = <<"s","m">> -> 576
    [] a = <<"m","d">> -> 768
    [] a = <<"l","g">> -> 992
    [] a = <<"x","l">> -> 1200

PixelsOf(b) == IF b.kind = "number" THEN b.num ELSE AliasPixels(b.str)

\* the media query the documentation gives for a written key
ClaimedQuery(key) ==
  IF key.kind \in {"alias", "number"}
  THEN <<"@","m","e","d","i","a"," ","(","m","i","n","-","w","i","d","t","h",":"," ">> \o NumberToString(PixelsOf(key)) \o <<"p","x",")">>
  ELSE <<"@","m","e","d","i","a"," ">>
         \o (IF key.min.kind = "absent" THEN <<>>
             ELSE <<"(","m","i","n","-","w","i","d","t","h",":"," ">> \o NumberToString(PixelsOf(key.min))
                    \o <<"p","x",")">>)
         \o (IF key.min.kind = "absent" \/ key.max.kind = "absent" THEN <<>>
             ELSE <<" ","a","n","d"," ">>)
         \o (IF key.max.kind = "absent" THEN <<>>
             ELSE <<"(","m","a","x","-","w","i","d","t","h",":"," ">> \o NumberToString(PixelsOf(key.max))
                    \o <<"p","x",")">>)

RECURSIVE ClaimedCss(_)
\* one line '<media query> { <styles> }' for each written key in turn
ClaimedCss(written) ==
  IF written = <<>> THEN <<>>
  ELSE ClaimedQuery(Head(written).key) \o <<" ", "{", " ">>
         \o StyleString(Head(written).styles) \o <<" ", "}", "\n">>
         \o ClaimedCss(Tail(written))

\* C20: responsive(breakpoints) returns, for each key in turn, one line
\* '<media query> { <styles> }', the media query being min-width of the
\* alias's pixels for an alias, min-width of N px for the numeric key N, and
\* the min/max range for a JSON range key.
ResponsiveEmitsClaimedQueries ==
  [][Called("responsive")
       => /\ last'.err = "none"
          /\ last'.ret = ClaimedCss(ResponsiveInputs[last'.idx])]_vars_

\* the static entries of a definition in the order they are enumerated, each
\* with its text as value
StaticEntries(written) ==
  LET IsStatic(e) == ~ IsResponsive(e)
      S == SelectSeq(EnumerationOrder(written), IsStatic)
  IN [i \in 1..Len(S) |-> Entry(S[i].name, S[i].value.str)]

\* C21: applyTheme applies the static entries of the theme before its
\* responsive entries, whatever order they were written in.  Each static
\* value is resolved against the variables before the call and the static
\* entries before it: a reference to a responsive variable of the theme gives
\* what the variable held before the call.  Each responsive base value is
\* resolved against variables in which every static entry of the theme has its
\* new value.
StaticsAreAppliedBeforeResponsive ==
  [][(Called("applyTheme") /\ last'.err = "none")
       => \E written \in {ThemeLookup(themes, last'.theme).entries} :
            \E S \in {StaticEntries(written)},
               R \in {SelectSeq(EnumerationOrder(written), IsResponsive)} :
              /\ AppliedInOrder(S)
              /\ \A k \in 1..Len(R) :
                   LET bps == R[k].value.bps
                       least == AscendingWidths(bps)[1]
                   IN /\ R[k].name \in DOMAIN vars'
                      /\ vars'[R[k].name] =
                           ReplaceRefs(BaseContext(R, k),
                                       bps[ValueOfWidth(bps, least)].v)]_vars_

\* C21 witness: the first two calls defined and applied the theme whose
\* responsive a (written first) refers to b and whose static b refers to a:
\* b got its fallback, a unregistered when b was applied, and a got the new b
StaticWasAppliedFirst ==
  /\ calls = 2
  /\ last.op = "applyTheme"
  /\ last.err = "none"
  /\ last.theme \in DOMAIN themes
  /\ themes[last.theme] = ThemeDefs[5]
  /\ vars[NameB] = Lit000
  /\ vars[NameA] = Lit000

\* the text t starts with the text p
StartsWith(t, p) == Len(p) <= Len(t) /\ SubSeq(t, 1, Len(p)) = p

\* C22: with a document, the media rule that a responsive application
\* generates for the smallest width assigns the value that the call stored
\* for the variable, the one get(name) returns after it, also when the value
\* of the smallest width refers to the variable itself.
SmallestWidthRuleRepeatsBase ==
  [][(Called("applyTheme") /\ last'.err = "none" /\ hasDocument)
       => LET R == SelectSeq(ThemeLookup(themes, last'.theme).entries,
                             IsResponsive)
          IN \A k \in 1..Len(R) :
               LET n == R[k].name
                   least == AscendingWidths(R[k].value.bps)[1]
               IN StartsWith(nodes'[Len(nodes) + k],
                             RuleText(least, n,
                                      Get(vars', n, FALSE, <<>>)))]_vars_

\* the number of responsive entries of R whose application completed: those
\* before the first breakpoint map without entries
Completed(R) ==
  LET Empty == { k \in 1..Len(R) : R[k].value.bps = <<>> }
  IN IF Empty = {} THEN Len(R)
     ELSE (CHOOSE k \in Empty : \A j \in Empty : k <= j) - 1

\* C23: the registry creates at most one style element, and the element is
\* append-only: every operation leaves the text nodes it held in place,
\* unchanged and in their order; with a document applyTheme appends exactly
\* one text node for each responsive variable it applied, and no other
\* operation appends any.
StyleElementIsAppendOnly ==
  [][/\ created <= created' /\ created' <= 1
     /\ hasStyleEl => hasStyleEl'
     /\ Len(nodes) <= Len(nodes')
     /\ SubSeq(nodes', 1, Len(nodes)) = nodes
     /\ IF Called("applyTheme") /\ hasDocument
        THEN LET written == ThemeLookup(themes, last'.theme).entries
                 R == SelectSeq(EnumerationOrder(written), IsResponsive)
             IN /\ Len(nodes') = Len(nodes) + Completed(R)
                /\ Completed(R) > 0 => created' = 1 /\ hasStyleEl'
        ELSE nodes' = nodes /\ created' = created]_vars_

\* C23 witness: a theme with a responsive variable was applied a second
\* time; the one style element holds the text of the first application and
\* after it the text of the second
SecondApplicationAppended ==
  /\ last.op = "applyTheme"
  /\ last.err = "none"
  /\ created = 1
  /\ Len(nodes) = 2
  /\ last.theme \in DOMAIN themes
  /\ themes[last.theme] = ThemeDefs[2]

\* C24: no operation unregisters a variable: a name that is registered stays
\* registered after every call, a failed applyTheme included, and get of it
\* returns its stored value, never the fallback or var(--name).
VariablesAreNeverDeleted ==
  [][/\ \A n \in DOMAIN vars :
          /\ n \in DOMAIN vars'
          /\ Get(vars', n, TRUE, Rem1) = vars'[n]
          /\ Get(vars', n, FALSE, <<>>) = vars'[n]
     /\ (Called("get") /\ last'.name \in DOMAIN vars)
          => last'.ret = vars[last'.name]]_vars_

\* C24 witness: a was registered, then a theme whose application fails at
\* its entry a was defined and applied; a is still registered
RegisteredAfterFailedApply ==
  /\ calls = 3
  /\ last.op = "applyTheme"
  /\ last.err = "TypeError"
  /\ last.theme \in DOMAIN themes
  /\ themes[last.theme] = ThemeDefs[3]
  /\ NameA \in DOMAIN vars
  /\ NameB \in DOMAIN vars

SetChangesOnlyItsVariable ==
  [][Called("set")
       => /\ DOMAIN vars' = DOMAIN vars \cup {last'.name}
          /\ \A n \in DOMAIN vars \ {last'.name} :
               /\ vars'[n] = vars[n]
               /\ GetPropertyValue(rootStyle', n)
                    = GetPropertyValue(rootStyle, n)
          /\ DOMAIN rootStyle' \ {last'.name} = DOMAIN rootStyle \ {last'.name}
          /\ themes' = themes
          /\ currentTheme' = currentTheme
          /\ GetCurrentTheme' = GetCurrentTheme
          /\ hasStyleEl' = hasStyleEl
          /\ nodes' = nodes
          /\ created' = created]_vars_

\* C26 witness: after a theme with a responsive a and a static b was applied
\* with a document, set gave a a value that refers to a and to b; b, the
\* theme and the text node are still there
SetAfterThemeKeptTheRest ==
  /\ calls = 3
  /\ last.op = "set"
  /\ last.name = NameA
  /\ vars[NameA] = Lit111 \o <<"+">> \o Lit111
  /\ NameB \in DOMAIN vars
  /\ vars[NameB] = Lit111
  /\ currentTheme # Null
  /\ currentTheme \in DOMAIN themes
  /\ themes[currentTheme] = ThemeDefs[2]
  /\ Len(nodes) = 1

\* C27: every call of set, setBatch and applyTheme completes, also with
\* values that refer to their own variable or to each other in a cycle: each
\* embedded reference is replaced once, by the text stored for the variable
\* it names, and that text is stored as it is even when it reads as a
\* reference itself; the call does not set the variable referred to.
ReferencesAreSubstitutedOnce ==
  [][/\ (Called("set") /\ last'.value = Render(<<Ref(NameB, "'")>>))
          => /\ vars'[last'.name] = Get(vars, NameB, FALSE, <<>>)
             /\ (NameB \in DOMAIN vars /\ last'.name # NameB)
                  => vars'[NameB] = vars[NameB]
     /\ (Called("set") /\ last'.value = Nested)
          => vars'[last'.name] =
               IF NameB \in DOMAIN vars
               THEN vars[NameB] \o <<"\"", ")">>
               ELSE SelfReference
     /\ (Called("setBatch") /\ last'.idx = 2)
          => /\ vars'[NameA] = Get(vars, NameB, FALSE, <<>>)
             /\ vars'[NameB] = Lit000
     /\ (Called("applyTheme") /\ last'.err = "none"
          /\ ThemeLookup(themes, last'.theme).entries = ThemeDefs[5])
          => /\ vars'[NameB] = Get(vars, NameA, TRUE, Lit000)
             /\ vars'[NameA] = vars'[NameB]]_vars_

\* C27 witness: b holds a text that reads as a reference to a, and set gave
\* a the value "reference to b": a now holds a reference to itself, stored
\* as text
CycleWasStoredAsText ==
  /\ calls = 2
  /\ last.op = "set"
  /\ last.name = NameA
  /\ last.value = Render(<<Ref(NameB, "'")>>)
  /\ NameB \in DOMAIN vars
  /\ vars[NameB] = SelfReference
  /\ vars[NameA] = SelfReference

====
